---- MODULE Spec2Model ----
(***************************************************************************)
(* Model of src/student_code.py: SortableDigraph, TraversableDigraph and   *)
(* DAG.  A graph instance is its class and its three dictionaries.  A      *)
(* Python dict is modelled as a function whose DOMAIN is the key set; the  *)
(* insertion order of the keys of adj (and of node_data, which receives    *)
(* its keys at the same place, add_node lines 18-19) is the sequence       *)
(* `order`.                                                                *)
(***************************************************************************)
EXTENDS Integers, Sequences, FiniteSets, TLC

VARIABLES cls, order, adj, node_data, edge_weights, nops, call, ret

vars == <<cls, order, adj, node_data, edge_weights, nops, call, ret>>

\* ------------------------------------------------------------------ bounds
\* Mutating calls (add_node / add_edge) made on one instance under Spec.
MaxOps == 3
\* Adjacency entries of the structures SpecQuery draws.
MaxEdges == 3

\* ------------------------------------------------------------ value spaces
Nodes == {"a", "b", "c"}
None == "None"
\* Payloads a caller passes to add_node (None is the default argument).
Data == {None, "x"}
\* edge_weight arguments: "default" stands for an omitted argument.
WeightArgs == {"default", "2"}
Classes == {"TraversableDigraph", "DAG"}
NoArg == "-"

\* ------------------------------------------------------- sequence helpers
Range(s) == {s[i] : i \in 1..Len(s)}

Reverse(s) == [i \in 1..Len(s) |-> s[Len(s) + 1 - i]]

\* list.remove(x): drops the first occurrence of x.
RemoveFirst(s, x) ==
    LET i == CHOOSE k \in 1..Len(s) : s[k] = x /\ \A j \in 1..(k - 1) : s[j] # x
    IN  SubSeq(s, 1, i - 1) \o SubSeq(s, i + 1, Len(s))

\* dict.get(key, []) on the adjacency dictionary.
Get(a, node) == IF node \in DOMAIN a THEN a[node] ELSE <<>>

\* dict[key] = value: a new key is appended, an old key keeps its place.
Put(f, k, v) == [x \in (DOMAIN f) \cup {k} |-> IF x = k THEN v ELSE f[x]]

\* del dict[key]
Del(f, k) == [x \in (DOMAIN f) \ {k} |-> f[x]]

EmptyDict == [x \in {} |-> None]

\* ------------------------------------------------------------ Graph Store
Graph == [order |-> order, adj |-> adj, node_data |-> node_data,
          edge_weights |-> edge_weights]

EmptyGraph == [order |-> <<>>, adj |-> EmptyDict, node_data |-> EmptyDict,
               edge_weights |-> EmptyDict]

\* SortableDigraph.add_node
add_node(g, node, data) ==
    IF node \notin DOMAIN g.adj
    THEN [g EXCEPT !.order = Append(@, node),
                   !.adj = Put(@, node, <<>>),
                   !.node_data = Put(@, node, data)]
    ELSE g

\* SortableDigraph.add_edge
add_edge(g, u, v, edge_weight) ==
    LET g1 == add_node(g, u, None)
        g2 == add_node(g1, v, None)
    IN  [g2 EXCEPT !.adj = Put(@, u, Append(@[u], v)),
                   !.edge_weights = Put(@, <<u, v>>, edge_weight)]

\* SortableDigraph.successors
successors(a, node) == Get(a, node)

\* --------------------------------------------------------- cycle detector
\* dfs_cycle(node) of DAG._detect_cycle.  st = [visited, rec_stack, found];
\* found is the returned boolean, the two sets are the closure's state.
RECURSIVE dfs_cycle(_, _, _), dfs_cycle_loop(_, _, _, _, _)

dfs_cycle(a, node, st) ==
    dfs_cycle_loop(a, node, successors(a, node), 1,
                   [visited |-> st.visited \cup {node},
                    rec_stack |-> st.rec_stack \cup {node},
                    found |-> FALSE])

dfs_cycle_loop(a, node, nbrs, i, st) ==
    IF i > Len(nbrs)
    THEN [st EXCEPT !.rec_stack = @ \ {node}, !.found = FALSE]
    ELSE LET neighbor == nbrs[i]
             r == IF neighbor \notin st.visited
                  THEN dfs_cycle(a, neighbor, st)
                  ELSE st
         IN  IF neighbor \notin st.visited /\ r.found
             THEN r
             ELSE IF neighbor \in r.rec_stack
                  THEN [r EXCEPT !.found = TRUE]
                  ELSE dfs_cycle_loop(a, node, nbrs, i + 1, r)

RECURSIVE detect_roots(_, _, _, _)
detect_roots(ord, a, i, st) ==
    IF i > Len(ord)
    THEN FALSE
    ELSE IF ord[i] \notin st.visited
         THEN LET r == dfs_cycle(a, ord[i], st)
              IN  IF r.found THEN TRUE ELSE detect_roots(ord, a, i + 1, r)
         ELSE detect_roots(ord, a, i + 1, st)

\* Plausible slip: only the first key of adj is used as a DFS root.
detect_cycle_first_root(ord, a) ==
    Len(ord) > 0 /\
    dfs_cycle(a, ord[1], [visited |-> {}, rec_stack |-> {}, found |-> FALSE]).found

\* DAG._detect_cycle
detect_cycle(ord, a) ==
    detect_roots(ord, a, 1, [visited |-> {}, rec_stack |-> {}, found |-> FALSE])

\* ------------------------------------------------------- topological sort
\* visit(node) of SortableDigraph.topsort.  st = [visited, result].
RECURSIVE visit(_, _, _), visit_all(_, _, _, _)

visit(a, node, st) ==
    IF node \in st.visited
    THEN st
    ELSE LET st1 == visit_all(a, Get(a, node), 1,
                              [st EXCEPT !.visited = @ \cup {node}])
         IN  [st1 EXCEPT !.result = Append(@, node)]

\* for x in xs: visit(x)
visit_all(a, xs, i, st) ==
    IF i > Len(xs) THEN st ELSE visit_all(a, xs, i + 1, visit(a, xs[i], st))

\* Plausible slip: the post-order is returned without the final reversal.
topsort_unreversed(ord, a) ==
    visit_all(a, ord, 1, [visited |-> {}, result |-> <<>>]).result

\* SortableDigraph.topsort: it has no raise statement.
topsort(ord, a) ==
    Reverse(visit_all(a, ord, 1, [visited |-> {}, result |-> <<>>]).result)

\* in_degree of DAG.top_sort after the counting loops: one count per
\* adjacency entry, duplicates included.
RECURSIVE count_in(_, _, _)
count_in(s, i, v) ==
    IF i > Len(s) THEN 0 ELSE (IF s[i] = v THEN 1 ELSE 0) + count_in(s, i + 1, v)

RECURSIVE sum_in(_, _, _, _)
sum_in(ord, a, i, v) ==
    IF i > Len(ord) THEN 0 ELSE count_in(a[ord[i]], 1, v) + sum_in(ord, a, i + 1, v)

in_degree0(ord, a) == [u \in DOMAIN a |-> sum_in(ord, a, 1, u)]

\* [u for u in self.adj if in_degree.get(u, 0) == 0]
RECURSIVE zero_keys(_, _, _)
zero_keys(ord, deg, i) ==
    IF i > Len(ord)
    THEN <<>>
    ELSE (IF deg[ord[i]] = 0 THEN <<ord[i]>> ELSE <<>>) \o zero_keys(ord, deg, i + 1)

\* The loops of DAG.top_sort.  st = [in_degree, queue, topo_order].
RECURSIVE kahn_relax(_, _, _), kahn_loop(_, _)

\* for v in self.adj.get(u, []): in_degree[v] -= 1; enqueue at zero
kahn_relax(nbrs, i, st) ==
    IF i > Len(nbrs)
    THEN st
    ELSE LET v == nbrs[i]
             d == st.in_degree[v] - 1
             st1 == [st EXCEPT !.in_degree[v] = d,
                               !.queue = IF d = 0 THEN Append(@, v) ELSE @]
         IN  kahn_relax(nbrs, i + 1, st1)

\* while queue: u = queue.popleft(); topo_order.append(u); ...
kahn_loop(a, st) ==
    IF st.queue = <<>>
    THEN st.topo_order
    ELSE LET u == Head(st.queue)
             st1 == [st EXCEPT !.queue = Tail(@), !.topo_order = Append(@, u)]
         IN  kahn_loop(a, kahn_relax(Get(a, u), 1, st1))

kahn_order(ord, a) ==
    LET deg == in_degree0(ord, a)
    IN  kahn_loop(a, [in_degree |-> deg, queue |-> zero_keys(ord, deg, 1),
                      topo_order |-> <<>>])

\* Plausible slip: the length test that raises is left out.
dag_top_sort_no_raise(ord, a) ==
    [raised |-> FALSE, list |-> kahn_order(ord, a)]

\* DAG.top_sort: the order it returns, or the ValueError it raises.
dag_top_sort(ord, a) ==
    LET topo_order == kahn_order(ord, a)
    IN  IF Len(topo_order) # Len(ord)
        THEN [raised |-> TRUE, list |-> <<>>]
        ELSE [raised |-> FALSE, list |-> topo_order]

\* ------------------------------------------------------- Traversal Engine
\* st = [visited, result, queue]
RECURSIVE bfs_expand(_, _, _), bfs_loop(_, _)

\* for neighbor in self.successors(node): ...
bfs_expand(nbrs, i, st) ==
    IF i > Len(nbrs)
    THEN st
    ELSE LET neighbor == nbrs[i]
         IN  IF neighbor \notin st.visited
             THEN bfs_expand(nbrs, i + 1,
                             [visited |-> st.visited \cup {neighbor},
                              result |-> Append(st.result, neighbor),
                              queue |-> Append(st.queue, neighbor)])
             ELSE bfs_expand(nbrs, i + 1, st)

\* while queue: node = queue.popleft(); ...
bfs_loop(a, st) ==
    IF st.queue = <<>>
    THEN st.result
    ELSE bfs_loop(a, bfs_expand(successors(a, Head(st.queue)), 1,
                                [st EXCEPT !.queue = Tail(@)]))

\* TraversableDigraph.bfs
bfs(a, start) ==
    bfs_loop(a, [visited |-> {}, result |-> <<>>, queue |-> <<start>>])

\* dfs_visit(node) of TraversableDigraph.dfs.  st = [visited, result].
RECURSIVE dfs_visit(_, _, _, _)
dfs_visit(a, nbrs, i, st) ==
    IF i > Len(nbrs)
    THEN st
    ELSE LET neighbor == nbrs[i]
         IN  IF neighbor \notin st.visited
             THEN dfs_visit(a, nbrs, i + 1,
                            dfs_visit(a, successors(a, neighbor), 1,
                                      [visited |-> st.visited \cup {neighbor},
                                       result |-> Append(st.result, neighbor)]))
             ELSE dfs_visit(a, nbrs, i + 1, st)

\* Plausible slip: the traversal stops at the start's direct successors.
dfs_one_level(a, start) ==
    bfs_expand(successors(a, start), 1,
               [visited |-> {}, result |-> <<>>, queue |-> <<>>]).result

\* TraversableDigraph.dfs
dfs(a, start) ==
    dfs_visit(a, successors(a, start), 1,
              [visited |-> {}, result |-> <<>>]).result

\* ------------------------------------------------------- Acyclicity Guard
\* Plausible slip: the rollback forgets the adjacency entry.
rollback_weight_only(g, src, dest) ==
    [g EXCEPT !.edge_weights = Del(@, <<src, dest>>)]

\* Plausible slip: the rollback forgets the weight entry.
rollback_adj_only(g, src, dest) ==
    [g EXCEPT !.adj = Put(@, src, RemoveFirst(@[src], dest))]

\* The rollback of DAG.add_edge.
rollback(g, src, dest) ==
    [g EXCEPT !.edge_weights = Del(@, <<src, dest>>),
              !.adj = Put(@, src, RemoveFirst(@[src], dest))]

\* DAG.add_edge: the graph it leaves and whether it raised ValueError.
dag_add_edge(g, src, dest, edge_weight) ==
    LET g1 == add_edge(g, src, dest, edge_weight)
    IN  IF detect_cycle(g1.order, g1.adj)
        THEN [g |-> rollback(g1, src, dest), raised |-> TRUE]
        ELSE [g |-> g1, raised |-> FALSE]

\* ---------------------------------------------------------------- actions
NoRet == [raised |-> FALSE, list |-> <<>>, flag |-> FALSE]

SetGraph(g) ==
    /\ order' = g.order
    /\ adj' = g.adj
    /\ node_data' = g.node_data
    /\ edge_weights' = g.edge_weights

\* The weight SortableDigraph.add_edge stores for an omitted argument.
SortableDefault(w) == IF w = "default" THEN None ELSE w
\* The weight DAG.add_edge stores for an omitted argument.
DagDefault(w) == IF w = "default" THEN "1" ELSE w

AddNode(node, data) ==
    /\ nops < MaxOps
    /\ SetGraph(add_node(Graph, node, data))
    /\ nops' = nops + 1
    /\ call' = [op |-> "add_node", a |-> node, b |-> NoArg]
    /\ ret' = NoRet
    /\ UNCHANGED cls

AddEdge(u, v, w) ==
    /\ cls # "DAG"
    /\ nops < MaxOps
    /\ SetGraph(add_edge(Graph, u, v, SortableDefault(w)))
    /\ nops' = nops + 1
    /\ call' = [op |-> "add_edge", a |-> u, b |-> v]
    /\ ret' = NoRet
    /\ UNCHANGED cls

DagAddEdge(src, dest, w) ==
    /\ cls = "DAG"
    /\ nops < MaxOps
    /\ LET r == dag_add_edge(Graph, src, dest, DagDefault(w))
       IN  /\ SetGraph(r.g)
           /\ ret' = [NoRet EXCEPT !.raised = r.raised]
    /\ nops' = nops + 1
    /\ call' = [op |-> "DAG.add_edge", a |-> src, b |-> dest]
    /\ UNCHANGED cls

Init ==
    /\ cls \in Classes
    /\ order = <<>>
    /\ adj = EmptyDict
    /\ node_data = EmptyDict
    /\ edge_weights = EmptyDict
    /\ nops = 0
    /\ call = [op |-> "init", a |-> NoArg, b |-> NoArg]
    /\ ret = NoRet

Next ==
    \/ \E node \in Nodes, data \in Data : AddNode(node, data)
    \/ \E u \in Nodes, v \in Nodes, w \in WeightArgs : AddEdge(u, v, w)
    \/ \E u \in Nodes, v \in Nodes, w \in WeightArgs : DagAddEdge(u, v, w)

Spec == Init /\ [][Next]_vars

\* SortableDigraph.top_sort (the alias) or its override DAG.top_sort,
\* whichever the instance's class dispatches to.
top_sort(c, ord, a) ==
    IF c = "DAG"
    THEN dag_top_sort(ord, a)
    ELSE [raised |-> FALSE, list |-> topsort(ord, a)]

\* ---------------------------------------------------------- query actions
\* A read-only method was called: the graph is left as it is.
Called(op, arg) ==
    /\ call' = [op |-> op, a |-> arg, b |-> NoArg]
    /\ UNCHANGED <<cls, order, adj, node_data, edge_weights, nops>>

Topsort ==
    /\ ret' = [NoRet EXCEPT !.list = topsort(order, adj)]
    /\ Called("topsort", NoArg)

TopSort ==
    /\ LET r == top_sort(cls, order, adj)
       IN  ret' = [NoRet EXCEPT !.raised = r.raised, !.list = r.list]
    /\ Called("top_sort", NoArg)

DetectCycle ==
    /\ cls = "DAG"
    /\ ret' = [NoRet EXCEPT !.flag = detect_cycle(order, adj)]
    /\ Called("_detect_cycle", NoArg)

Bfs(start) ==
    /\ ret' = [NoRet EXCEPT !.list = bfs(adj, start)]
    /\ Called("bfs", start)

Dfs(start) ==
    /\ ret' = [NoRet EXCEPT !.list = dfs(adj, start)]
    /\ Called("dfs", start)

\* Sequences over S of length at most n.
SeqsUpTo(S, n) == UNION {[1..k -> S] : k \in 0..n}

\* Orders in which add_node can have created a set of keys.
Orders == {s \in SeqsUpTo(Nodes, Cardinality(Nodes)) :
              \A i, j \in 1..Len(s) : i # j => s[i] # s[j]}

\* The adjacency dictionaries over the keys K that hold at most n entries,
\* every entry a key (add_edge creates both endpoints).
RECURSIVE Structures(_, _, _)
Structures(K, rest, n) ==
    IF rest = {}
    THEN {EmptyDict}
    ELSE LET k == CHOOSE x \in rest : TRUE
         IN  UNION {{Put(f, k, s) : f \in Structures(K, rest \ {k}, n - Len(s))} :
                    s \in SeqsUpTo(K, n)}

\* The weights add_edge(u, v) leaves for an adjacency dictionary.
WeightsOf(a) ==
    [e \in {<<u, v>> \in (DOMAIN a) \X (DOMAIN a) : v \in Range(a[u])} |-> None]

\* Every structure the unguarded add_node(n) and add_edge(u, v) build
\* within the bound; on a DAG instance through the inherited
\* SortableDigraph.add_edge.
InitQuery ==
    /\ cls \in Classes
    /\ order \in Orders
    /\ adj \in Structures(Range(order), Range(order), MaxEdges)
    /\ node_data = [n \in Range(order) |-> None]
    /\ edge_weights = WeightsOf(adj)
    /\ nops = 0
    /\ call = [op |-> "init", a |-> NoArg, b |-> NoArg]
    /\ ret = NoRet

NextQuery ==
    \/ Topsort
    \/ TopSort
    \/ DetectCycle
    \/ \E start \in Nodes : Bfs(start)
    \/ \E start \in Nodes : Dfs(start)

SpecQuery == InitQuery /\ [][NextQuery]_vars

\* ------------------------------------------------- vocabulary of the claims
\* Direct successors as a set.
Succ(a, u) == Range(Get(a, u))

RECURSIVE Closure(_, _)
Closure(a, S) ==
    LET T == S \cup UNION {Succ(a, x) : x \in S}
    IN  IF T = S THEN S ELSE Closure(a, T)

\* Nodes reachable from s by a path of one or more edges.
ReachPlus(a, s) == Closure(a, Succ(a, s))

\* Nodes reachable from s by a path of zero or more edges.
ReachStar(a, s) == {s} \cup ReachPlus(a, s)

\* Some node is reachable from itself by one or more edges.
Cyclic(a) == \E n \in DOMAIN a : n \in ReachPlus(a, n)

NoDup(s) == \A i, j \in 1..Len(s) : i # j => s[i] # s[j]

\* Position of x in a duplicate-free sequence that holds it.
Pos(s, x) == CHOOSE i \in 1..Len(s) : s[i] = x

\* s lists every key of a exactly once, every edge's source before its target.
ValidTopo(a, s) ==
    /\ Len(s) = Cardinality(DOMAIN a)
    /\ Range(s) = DOMAIN a
    /\ \A u \in DOMAIN a : \A v \in Succ(a, u) : Pos(s, u) < Pos(s, v)

Rejected == call.op = "DAG.add_edge" /\ ret.raised

\* ------------------------------------------------------------------ claims
\* C1: on a DAG instance the stored adjacency relation is acyclic after
\* every add_node and add_edge call, whether add_edge succeeded or raised:
\* no node is reachable from itself, and no node is its own successor.
C1_Acyclic ==
    cls = "DAG" =>
        /\ ~Cyclic(adj)
        /\ \A n \in DOMAIN adj : n \notin Succ(adj, n)

\* A rejected edge between two distinct nodes of a graph holding an edge.
C1_Witness == Rejected /\ call.a # call.b /\ DOMAIN edge_weights # {}

\* C2: whenever DAG.add_edge raises, the whole graph (key order, node
\* values, successor lists, weights) is what it was before the call.
C2_RollbackExact == [][Rejected' => Graph' = Graph]_vars

\* C3: DAG.add_edge(src, dest) raises exactly when, before the call, a path
\* of zero or more edges leads from dest to src; otherwise dest is among
\* successors(src) afterwards.
C3_PreCheckEquivalent ==
    [][call'.op = "DAG.add_edge" =>
         /\ ret'.raised <=> call'.a \in ReachStar(adj, call'.b)
         /\ ~ret'.raised => call'.b \in Succ(adj', call'.a)]_vars

\* A rejection whose closing path has more than one edge.
C3_Witness == Rejected /\ call.a # call.b /\ call.a \notin Succ(adj, call.b)

\* C8: no successor list holds a node twice.
C8_NoParallelEdges == \A u \in DOMAIN adj : NoDup(adj[u])

\* C9: every key (u, v) of edge_weights is an edge of the adjacency
\* structure, after every completed operation on either class.
C9_WeightsHaveEdges ==
    \A e \in DOMAIN edge_weights : e[1] \in DOMAIN adj /\ e[2] \in Succ(adj, e[1])

\* A rollback ran on a graph that keeps weights.
C9_Witness == Rejected /\ Cardinality(DOMAIN edge_weights) >= 2

\* C4: on an acyclic graph, duplicate entries included, topsort() and
\* top_sort() (the alias and Kahn's) return every node once, sources first.
C4_TopoValid ==
    (call.op \in {"topsort", "top_sort"} /\ ~Cyclic(adj)) =>
        ~ret.raised /\ ValidTopo(adj, ret.list)

\* Kahn's algorithm ran on an acyclic graph of three nodes with a
\* duplicate entry.
C4_Witness ==
    /\ cls = "DAG" /\ call.op = "top_sort" /\ ~Cyclic(adj)
    /\ Len(order) = 3
    /\ \E u \in DOMAIN adj : ~NoDup(adj[u])

\* C5: on a cyclic graph of the unguarded classes topsort() and top_sort()
\* raise instead of returning a list.
C5_CyclicRaises ==
    (cls # "DAG" /\ call.op \in {"topsort", "top_sort"} /\ Cyclic(adj)) => ret.raised

\* C6 as stated: bfs and dfs from a start node of the graph emit exactly
\* the nodes reachable by zero or more edges, none twice.
C6_Original ==
    (call.op \in {"bfs", "dfs"} /\ call.a \in DOMAIN adj) =>
        Range(ret.list) = ReachStar(adj, call.a) /\ NoDup(ret.list)

\* C6 amended: the emitted nodes together with the start node are exactly
\* the nodes reachable by zero or more edges, and none is emitted twice.
C6_VisitOnce ==
    (call.op \in {"bfs", "dfs"} /\ call.a \in DOMAIN adj) =>
        /\ Range(ret.list) \cup {call.a} = ReachStar(adj, call.a)
        /\ Range(ret.list) \subseteq ReachPlus(adj, call.a)
        /\ NoDup(ret.list)

\* A traversal that emitted two nodes, one of them not a direct successor.
C6_Witness ==
    /\ call.op \in {"bfs", "dfs"} /\ call.a \in DOMAIN adj
    /\ Len(ret.list) >= 2
    /\ Range(ret.list) # Succ(adj, call.a)

\* C7: neither bfs(start) nor dfs(start) lists start.
C7_StartExcluded ==
    call.op \in {"bfs", "dfs"} => call.a \notin Range(ret.list)

\* C10: _detect_cycle returns True exactly when Kahn's top_sort of DAG
\* emits fewer nodes than the graph has and raises.
C10_DetectorsAgree ==
    /\ call.op = "_detect_cycle" =>
           ret.flag = (Len(kahn_order(order, adj)) < Len(order))
    /\ call.op = "_detect_cycle" => ret.flag = dag_top_sort(order, adj).raised
    /\ (cls = "DAG" /\ call.op = "top_sort") => ret.raised = detect_cycle(order, adj)

\* The detector ran on a cyclic graph with a duplicate entry and an
\* isolated node.
C10_Witness ==
    /\ call.op = "_detect_cycle" /\ ret.flag
    /\ \E u \in DOMAIN adj : ~NoDup(adj[u])
    /\ \E n \in DOMAIN adj : adj[n] = <<>> /\ \A u \in DOMAIN adj : n \notin Succ(adj, u)

====
